---- MODULE Spec2Model ----
(***************************************************************************)
(* Model of qwen-vl-finetune/3d_synthetic_data_generator.py: the script    *)
(* that loads a mesh, slices it along the view planes, renders every       *)
(* outline into a panel of a figure, adds the title block, the notes and   *)
(* the border, saves the figure and prints a report.  The views mapping,    *)
(* the metadata and the dimension toggle range over the arguments that     *)
(* create_engineering_drawing accepts, those of __main__ among them.       *)
(*                                                                         *)
(* Lengths are integers in units of 1/128 mm, so that every coordinate is  *)
(* a binary fraction a double holds exactly.  Positions of the figure      *)
(* (fractions of the figure) are in hundredths, the data coordinates of    *)
(* the title block and the notes in tenths, and the positions of the       *)
(* dimension elements in thousandths of a unit (Milli).                    *)
(***************************************************************************)
EXTENDS Integers, Sequences, FiniteSets, TLC

VARIABLES pc, stl, slicing_planes, drawing_info, show_dimensions,
          mesh, eng_drawing, view_positions, i, fig, path2D,
          written, stdout, err, log

vars == <<pc, stl, slicing_planes, drawing_info, show_dimensions,
          mesh, eng_drawing, view_positions, i, fig, path2D,
          written, stdout, err, log>>

\* ------------------------------------------------------------ bounds
\* The number of view titles a views mapping is drawn from.
MaxViews == 4

\* ------------------------------------------------------------ numbers
UnitsPerMm == 2^7
Milli == 10^3
\* tol=1e-2 of is_path_closed, as a denominator: atol = 1/TolDen mm
TolDen == 100
\* numpy.allclose's default rtol = 1e-5, as a denominator
RtolDen == 10^5

Abs(x) == IF x < 0 THEN -x ELSE x
Max2(a, b) == IF a >= b THEN a ELSE b
Min2(a, b) == IF a <= b THEN a ELSE b

RECURSIVE SeqMin(_)
SeqMin(s) == IF Len(s) = 1 THEN s[1] ELSE Min2(s[1], SeqMin(Tail(s)))
RECURSIVE SeqMax(_)
SeqMax(s) == IF Len(s) = 1 THEN s[1] ELSE Max2(s[1], SeqMax(Tail(s)))

RECURSIVE Flatten(_)
Flatten(ss) == IF ss = <<>> THEN <<>> ELSE Head(ss) \o Flatten(Tail(ss))

\* Python's [x] * n: the empty list when n <= 0
Repeat(x, n) == [k \in 1..Max2(n, 0) |-> x]

\* f"{v:.2f}" of the double v/128 mm: the number of hundredths, correctly
\* rounded, an exact tie going to the even digit.
Fmt2(v) ==
  LET n == v * 100
      q == n \div UnitsPerMm
      r == n % UnitsPerMm
  IN  IF 2 * r < UnitsPerMm THEN q
      ELSE IF 2 * r > UnitsPerMm THEN q + 1
      ELSE IF q % 2 = 0 THEN q ELSE q + 1

\* ------------------------------------------------------------ exceptions
NoExc == [type |-> "none", msg |-> ""]
Exc(t, m) == [type |-> t, msg |-> m]

\* FileNotFoundError is the only class the script names beside Exception;
\* every class raised here derives from Exception.
IsFileNotFound(e) == e.type = "FileNotFoundError"

\* ------------------------------------------------------------ outlines
\* A section: None, or a Path2D with its discrete polylines.
None2D == [some |-> FALSE, discrete |-> <<>>]
Path2D(d) == [some |-> TRUE, discrete |-> d]

Square == << <<-640, -640>>, <<640, -640>>, <<640, 640>>, <<-640, 640>>, <<-640, -640>> >>
OpenTri == << <<0, 0>>, <<16, 0>>, <<0, 48>> >>
NearClosed == << <<0, 0>>, <<400, 0>>, <<400, 300>>, <<1, 0>> >>
SmallGap == << <<0, 0>>, <<640, 0>>, <<640, 80>>, <<2, 0>> >>
FarGap == << <<80000, 0>>, <<80000, 640>>, <<79000, 640>>, <<80002, 0>> >>
TwoOpen == << <<0, 0>>, <<640, 0>> >>
TwoSame == << <<8, 8>>, <<8, 8>> >>
OnePoint == << <<5, 5>> >>

\* ------------------------------------------------------------ meshes
AxisX == <<1, 0, 0>>
AxisY == <<0, 1, 0>>
AxisZ == <<0, 0, 1>>

\* A mesh file's content: the center of mass, the bounds (min, max) and,
\* for the planes through the center of mass, the outline of the section.
CubeFile ==
  [center_mass |-> <<640, 640, 640>>,
   bounds |-> << <<0, 0, 0>>, <<1280, 1280, 1280>> >>,
   slices |-> (AxisX :> <<Square>>) @@ (AxisY :> <<Square>>) @@ (AxisZ :> <<Square>>)]

PlateFile ==
  [center_mass |-> <<0, 0, 0>>,
   bounds |-> << <<-80016, -640, -24>>, <<80016, 640, 24>> >>,
   slices |-> (AxisY :> <<OpenTri, NearClosed>>) @@ (AxisZ :> <<FarGap>>)
              @@ (AxisX :> <<SmallGap, TwoOpen, TwoSame>>)]

SliverFile ==
  [center_mass |-> <<-8, 0, 16>>,
   bounds |-> << <<-648, -640, 0>>, <<632, 640, 32>> >>,
   slices |-> (AxisY :> <<OnePoint>>) @@ (AxisZ :> <<Square, OnePoint>>)
              @@ (AxisX :> <<TwoSame>>)]

MeshFiles == {CubeFile, PlateFile, SliverFile}

NoMesh == [center_mass |-> <<0, 0, 0>>,
           bounds |-> << <<0, 0, 0>>, <<0, 0, 0>> >>,
           slices |-> (AxisX :> <<>>)]

Vec3Add(a, b) == <<a[1] + b[1], a[2] + b[2], a[3] + b[3]>>
Vec3Sub(a, b) == <<a[1] - b[1], a[2] - b[2], a[3] - b[3]>>

\* mesh.apply_translation(t)
apply_translation(m, t) ==
  [m EXCEPT !.center_mass = Vec3Add(@, t),
            !.bounds = << Vec3Add(@[1], t), Vec3Add(@[2], t) >>]

load_and_center_mesh(file) ==
  apply_translation(file, [k \in 1..3 |-> -file.center_mass[k]])

Dot(a, b) == a[1] * b[1] + a[2] * b[2] + a[3] * b[3]

\* mesh.section(plane_origin, plane_normal) followed by to_2D: None when the
\* plane lies outside the mesh's extent along its normal.
MeshSection(m, origin, normal) ==
  LET lo == Dot(m.bounds[1], normal)
      hi == Dot(m.bounds[2], normal)
      at == Dot(origin, normal)
  IN  IF normal \in DOMAIN m.slices /\ lo <= at /\ at <= hi
      THEN Path2D(m.slices[normal])
      ELSE None2D

get_cross_section(m, origin, normal) ==
  LET section == MeshSection(m, origin, normal)
  IN  IF ~section.some THEN None2D ELSE section

get_mesh_dimensions(m) ==
  LET dimensions == Vec3Sub(m.bounds[2], m.bounds[1])
  IN  [length |-> dimensions[1], width |-> dimensions[2],
       height |-> dimensions[3], bounds |-> m.bounds]

\* path2D.bounds.reshape(2, 2): <<min_pt, max_pt>> over every vertex
Bounds2D(p) ==
  LET pts == Flatten(p.discrete)
      xs == [k \in 1..Len(pts) |-> pts[k][1]]
      ys == [k \in 1..Len(pts) |-> pts[k][2]]
  IN  << <<SeqMin(xs), SeqMin(ys)>>, <<SeqMax(xs), SeqMax(ys)>> >>

\* ------------------------------------------------------------ axes
\* What fig.add_axes(pos) returns: an empty axes at pos.
NewAxes(pos) ==
  [pos |-> pos, title |-> <<>>, axis_off |-> FALSE, aspect |-> "auto",
   xlim |-> <<>>, ylim |-> <<>>,
   built |-> <<>>, patches |-> <<>>, lines |-> <<>>, arrows |-> <<>>,
   texts |-> <<>>]

\* ax.plot([x0, x1], [y0, y1], linestyle="--", color="gray", linewidth=0.8)
Dashed(x0, x1, y0, y1) ==
  [xs |-> <<x0, x1>>, ys |-> <<y0, y1>>, linestyle |-> "--"]

\* ax.annotate("", xy=..., xytext=..., arrowprops=dict(arrowstyle="<->", ...))
Arrow(xy, xytext) == [xy |-> xy, xytext |-> xytext, arrowstyle |-> "<->"]

\* ax.text(x, y, f"{value:.2f} mm", ..., rotation=...)
DimText(x, y, value, rotation) ==
  [x |-> x, y |-> y, s |-> [value |-> Fmt2(value), suffix |-> " mm"],
   rotation |-> rotation]

\* The annotations with the offset taken as the 20% of the plot padding
add_dimension_annotations_Padding(ax, p, view_name) ==
  LET bounds == Bounds2D(p)
      min_pt == bounds[1]
      max_pt == bounds[2]
      width  == max_pt[1] - min_pt[1]
      height == max_pt[2] - min_pt[2]
      offset == Max2(width, height) * 200
      minx   == Milli * min_pt[1]
      maxx   == Milli * max_pt[1]
      miny   == Milli * min_pt[2]
      maxy   == Milli * max_pt[2]
      y_dim  == miny - offset
      x_dim  == maxx + offset
  IN  [ax EXCEPT
        !.lines = @ \o << Dashed(minx, minx, miny, y_dim),
                          Dashed(maxx, maxx, maxy, y_dim),
                          Dashed(x_dim, maxx, maxy, maxy),
                          Dashed(x_dim, minx, miny, miny) >>,
        !.arrows = @ \o << Arrow(<<minx, y_dim>>, <<maxx, y_dim>>),
                           Arrow(<<x_dim, miny>>, <<x_dim, maxy>>) >>,
        !.texts = @ \o << DimText((minx + maxx) \div 2, y_dim - offset \div 10,
                                  width, 0),
                          DimText(x_dim + offset \div 10, (miny + maxy) \div 2,
                                  height, 90) >>]

add_dimension_annotations(ax, p, view_name) ==
  LET bounds == Bounds2D(p)
      min_pt == bounds[1]
      max_pt == bounds[2]
      width  == max_pt[1] - min_pt[1]
      height == max_pt[2] - min_pt[2]
      \* max(width, height) * 0.15, in thousandths
      offset == Max2(width, height) * 150
      minx   == Milli * min_pt[1]
      maxx   == Milli * max_pt[1]
      miny   == Milli * min_pt[2]
      maxy   == Milli * max_pt[2]
      y_dim  == miny - offset
      x_dim  == maxx + offset
  IN  [ax EXCEPT
        !.lines = @ \o << Dashed(minx, minx, miny, y_dim),
                          Dashed(maxx, maxx, maxy, y_dim),
                          Dashed(x_dim, maxx, maxy, maxy),
                          Dashed(x_dim, minx, miny, miny) >>,
        !.arrows = @ \o << Arrow(<<minx, y_dim>>, <<maxx, y_dim>>),
                           Arrow(<<x_dim, miny>>, <<x_dim, maxy>>) >>,
        !.texts = @ \o << DimText((minx + maxx) \div 2, y_dim - offset \div 10,
                                  width, 0),
                          DimText(x_dim + offset \div 10, (miny + maxy) \div 2,
                                  height, 90) >>]

\* np.allclose(path[0], path[-1], atol=tol): for every coordinate
\* |a - b| <= atol + rtol * |b|, with numpy's default rtol.  In units, times
\* RtolDen: |a - b| * RtolDen <= UnitsPerMm * RtolDen / TolDen + |b|, which for
\* integers is the bound below.
is_path_closed(path) ==
  LET a == path[1]
      b == path[Len(path)]
  IN  \A c \in 1..2 :
        Abs(a[c] - b[c])
          <= (UnitsPerMm * (RtolDen \div TolDen) + Abs(b[c])) \div RtolDen

\* The vertices the loop body hands to MplPath
ClosedVerts(path) ==
  IF ~is_path_closed(path) THEN Append(path, path[1]) ELSE path

\* [MOVETO] + [LINETO] * (len(path) - 2) + [CLOSEPOLY]
PathCodes(verts) ==
  <<"MOVETO">> \o Repeat("LINETO", Len(verts) - 2) \o <<"CLOSEPOLY">>

\* MplPath(vertices, codes) rejects codes of another length than vertices
MplPathRaises(verts, codes) == Len(codes) # Len(verts)

\* The for loop of plot_cross_section over path2D.discrete
RECURSIVE PatchLoop(_, _)
PatchLoop(ax, discrete) ==
  IF discrete = <<>> THEN [ax |-> ax, raised |-> NoExc]
  ELSE LET verts == ClosedVerts(Head(discrete))
           codes == PathCodes(verts)
           made  == [ax EXCEPT !.built = Append(@, [verts |-> verts, codes |-> codes])]
       IN  IF MplPathRaises(verts, codes)
           THEN [ax |-> made,
                 raised |-> Exc("ValueError", "'codes' must be a 1D list or array with the same length of 'vertices'")]
           ELSE PatchLoop([made EXCEPT !.patches =
                             Append(@, [verts |-> verts, codes |-> codes,
                                        facecolor |-> "none", edgecolor |-> "black"])],
                          Tail(discrete))

\* The placeholder title without its suffix
NoSectionTitle_Plain(title) == <<title>>

\* f"{title} (No section)"
NoSectionTitle(title) == <<title, " (No section)">>

plot_cross_section(ax, p, title, dims) ==
  IF ~p.some
  THEN [ax |-> [ax EXCEPT !.title = NoSectionTitle(title), !.axis_off = TRUE],
        raised |-> NoExc]
  ELSE LET looped == PatchLoop(ax, p.discrete)
           ax1 == IF dims THEN add_dimension_annotations(looped.ax, p, title)
                  ELSE looped.ax
           bounds == Bounds2D(p)
           min_pt == bounds[1]
           max_pt == bounds[2]
           \* 0.2 * max(...), in thousandths
           padding == 200 * Max2(max_pt[1] - min_pt[1], max_pt[2] - min_pt[2])
       IN  IF looped.raised # NoExc THEN looped
           ELSE [ax |-> [ax1 EXCEPT
                           !.xlim = <<Milli * min_pt[1] - padding, Milli * max_pt[1] + padding>>,
                           !.ylim = <<Milli * min_pt[2] - padding, Milli * max_pt[2] + padding>>,
                           !.aspect = "equal",
                           !.axis_off = TRUE],
                 raised |-> NoExc]

\* ------------------------------------------------------------ metadata
\* A drawing_info argument: None (given = FALSE) or a mapping.
EmptyMap == [k \in {} |-> ""]
NoInfo == [given |-> FALSE, map |-> EmptyMap]
InfoArg(m) == [given |-> TRUE, map |-> m]

\* datetime.now().strftime("%Y-%m-%d")
Today == "2026-01-01"

get_default_drawing_info ==
  [part_name |-> "PART NAME", part_number |-> "PN-000-000",
   material |-> "MATERIAL TBD", scale |-> "1:1",
   projection_method |-> "THIRD ANGLE", drawing_number |-> "DWG-001",
   revision |-> "A", drawn_by |-> "ENGINEER", checked_by |-> "CHECKER",
   approved_by |-> "APPROVER", date |-> Today, company |-> "COMPANY NAME",
   title |-> "ENGINEERING DRAWING", units |-> "mm",
   surface_finish |-> "3.2 um",
   tolerances |-> [linear |-> "+-0.1", angular |-> "+-0.5deg"]]

\* The drawing_info of __main__
MainInfo ==
  [part_name |-> "BALL BEARING", part_number |-> "BB-6000-2RS",
   material |-> "CHROME STEEL", scale |-> "2:1",
   projection_method |-> "THIRD ANGLE", drawing_number |-> "DWG-BB-001",
   revision |-> "A", drawn_by |-> "J. SMITH", checked_by |-> "M. JOHNSON",
   approved_by |-> "R. WILSON", date |-> Today,
   company |-> "PRECISION BEARINGS INC.", title |-> "BALL BEARING ASSEMBLY",
   units |-> "mm", surface_finish |-> "1.6 um",
   tolerances |-> [linear |-> "+-0.05", angular |-> "+-0.25deg"]]

\* A mapping with the title block's fields and no tolerances
NoTolInfo ==
  [part_name |-> "SHAFT", part_number |-> "SH-1", material |-> "STEEL",
   scale |-> "1:2", projection_method |-> "FIRST ANGLE",
   drawing_number |-> "DWG-SH-1", drawn_by |-> "A. B.", date |-> Today,
   company |-> "ACME", title |-> "SHAFT", units |-> "inch",
   surface_finish |-> "0.8 um"]

\* A mapping with two fields only
PartialInfo == [part_name |-> "BRACKET", material |-> "ALUMINIUM"]

InfoArgs == {NoInfo, InfoArg(EmptyMap), InfoArg(MainInfo), InfoArg(NoTolInfo),
             InfoArg(PartialInfo)}

\* Python's truth value of the argument: None and the empty dict are false
Truthy(arg) == arg.given /\ DOMAIN arg.map # {}

\* For each field the caller gives, the caller's value, else the default's
MergedInfo(arg) ==
  [k \in DOMAIN get_default_drawing_info |->
     IF arg.given /\ k \in DOMAIN arg.map THEN arg.map[k]
     ELSE get_default_drawing_info[k]]

EngineeringDrawing_Merging(arg) == [drawing_info |-> MergedInfo(arg)]

\* EngineeringDrawing.__init__: drawing_info or self.get_default_drawing_info()
EngineeringDrawing(arg) ==
  [drawing_info |-> IF Truthy(arg) THEN arg.map ELSE get_default_drawing_info]

\* str.upper() of the units the mappings use
Upper(str) ==
  CASE str = "mm" -> "MM"
    [] str = "inch" -> "INCH"
    [] OTHER -> str

\* The first key of keys that info lacks
RECURSIVE FirstMissing(_, _)
FirstMissing(info, keys) ==
  IF keys = <<>> THEN ""
  ELSE IF Head(keys) \notin DOMAIN info THEN Head(keys)
  ELSE FirstMissing(info, Tail(keys))

KeyError(k) == Exc("KeyError", k)

Solid(x0, x1, y0, y1) ==
  [xs |-> <<x0, x1>>, ys |-> <<y0, y1>>, linestyle |-> "-"]

BoxRect(lw) == [xy |-> <<0, 0>>, w |-> 100, h |-> 100, linewidth |-> lw,
                facecolor |-> "none", edgecolor |-> "black"]

Text(s, x, y) == [x |-> x, y |-> y, s |-> s, rotation |-> 0]

\* The keys create_title_block reads, in the order it reads them
TitleBlockKeys ==
  <<"company", "title", "part_name", "part_number", "material", "scale",
    "projection_method", "units", "drawn_by", "date", "drawing_number">>

TitleBlockFields(info) ==
  << Text(info["company"], 50, 90), Text(info["title"], 50, 83),
     Text("PART NAME:", 2, 73), Text(info["part_name"], 32, 73),
     Text("PART NUMBER:", 62, 73), Text(info["part_number"], 62, 67),
     Text("MATERIAL:", 2, 53), Text(info["material"], 32, 53),
     Text("SCALE:", 62, 53), Text(info["scale"], 62, 47),
     Text("PROJECTION:", 2, 33), Text(info["projection_method"], 32, 33),
     Text("UNITS:", 62, 33), Text(info["units"], 62, 27),
     Text("DRAWN BY:", 2, 13), Text(info["drawn_by"], 2, 7),
     Text("DATE:", 32, 13), Text(info["date"], 32, 7),
     Text("DWG NO:", 62, 13), Text(info["drawing_number"], 62, 7) >>

\* create_title_block(fig, drawing_info): the axes it adds, and what it raises
create_title_block(info) ==
  LET ax0 == [NewAxes(<<60, 2, 35, 25>>) EXCEPT
                !.xlim = <<0, 100>>, !.ylim = <<0, 100>>, !.axis_off = TRUE,
                !.patches = <<BoxRect(20)>>,
                !.lines = << Solid(0, 100, 20, 20), Solid(0, 100, 40, 40),
                             Solid(0, 100, 60, 60), Solid(0, 100, 80, 80),
                             Solid(30, 30, 0, 60), Solid(60, 60, 0, 60) >>]
      missing == FirstMissing(info, TitleBlockKeys)
  IN  IF missing # "" THEN [ax |-> ax0, raised |-> KeyError(missing)]
      ELSE [ax |-> [ax0 EXCEPT !.texts = TitleBlockFields(info)],
            raised |-> NoExc]

NotesKeys == <<"units", "tolerances", "surface_finish", "material">>

NotesLines(info) ==
  << <<"1. ALL DIMENSIONS IN ", Upper(info["units"])>>,
     <<"2. UNLESS OTHERWISE SPECIFIED:">>,
     <<"   LINEAR TOL: ", info["tolerances"].linear>>,
     <<"   ANGULAR TOL: ", info["tolerances"].angular>>,
     <<"3. SURFACE FINISH: ", info["surface_finish"]>>,
     <<"4. REMOVE ALL BURRS AND SHARP EDGES">>,
     <<"5. MATERIAL: ", info["material"]>> >>

\* create_notes_section(fig, drawing_info)
create_notes_section(info) ==
  LET ax0 == [NewAxes(<<5, 2, 40, 25>>) EXCEPT
                !.xlim = <<0, 100>>, !.ylim = <<0, 100>>, !.axis_off = TRUE,
                !.patches = <<BoxRect(15)>>,
                !.texts = << Text(<<"GENERAL NOTES">>, 50, 90) >>,
                !.lines = << Solid(0, 100, 85, 85) >>]
      missing == FirstMissing(info, NotesKeys)
      notes == NotesLines(info)
  IN  IF missing # "" THEN [ax |-> ax0, raised |-> KeyError(missing)]
      ELSE [ax |-> [ax0 EXCEPT !.texts = @ \o
                      [k \in 1..Len(notes) |-> Text(notes[k], 2, 75 - (k - 1) * 7)]],
            raised |-> NoExc]

\* The border axes of create_engineering_drawing
BorderAxes ==
  [NewAxes(<<0, 0, 100, 100>>) EXCEPT
     !.xlim = <<0, 1>>, !.ylim = <<0, 1>>, !.axis_off = TRUE,
     !.patches = << [xy |-> <<2, 2>>, w |-> 96, h |-> 96, linewidth |-> 30,
                     facecolor |-> "none", edgecolor |-> "black"] >>]

\* ------------------------------------------------------------ inputs
STL_FILE == "ball-bearing.stl"
OUTPUT_FILE == "engineering_drawing.png"

\* The input file: missing, or the content of a mesh file
MissingFile == [exists |-> FALSE, content |-> NoMesh]
StlFiles == {MissingFile} \cup {[exists |-> TRUE, content |-> m] : m \in MeshFiles}

\* Far outside every mesh
Far == 10^6

AllTitles == <<"FRONT VIEW", "TOP VIEW", "RIGHT VIEW",
               "OFFSET TOP VIEW", "OFFSET FRONT VIEW", "OFFSET RIGHT VIEW">>

\* The slicing plane of a title: the three planes of __main__, and planes
\* that miss the mesh
PlaneOf(title) ==
  CASE title = "FRONT VIEW" -> [origin |-> <<0, 0, 0>>, normal |-> AxisY]
    [] title = "TOP VIEW" -> [origin |-> <<0, 0, 0>>, normal |-> AxisZ]
    [] title = "RIGHT VIEW" -> [origin |-> <<0, 0, 0>>, normal |-> AxisX]
    [] title = "OFFSET TOP VIEW" -> [origin |-> <<0, 0, Far>>, normal |-> AxisZ]
    [] title = "OFFSET FRONT VIEW" -> [origin |-> <<0, Far, 0>>, normal |-> AxisY]
    [] OTHER -> [origin |-> <<Far, 0, 0>>, normal |-> AxisX]

\* A views mapping, as the sequence of its items: n titles from the start-th on
ViewsFrom(start, n) ==
  [k \in 1..n |->
     LET title == AllTitles[((start + k - 2) % MaxViews) + 1]
     IN  [title |-> title, plane |-> PlaneOf(title)]]

ViewMappings == {ViewsFrom(start, n) : start \in 1..MaxViews, n \in 0..MaxViews}

\* ------------------------------------------------------------ layout
Preset1 == << <<15, 40, 30, 40>> >>
Preset2 == << <<10, 40, 25, 40>>, <<40, 40, 25, 40>> >>
Preset3 == << <<5, 40, 25, 40>>, <<35, 40, 25, 40>>, <<65, 40, 25, 40>> >>

ViewPositions_TwoAsOne(n_views) ==
  IF n_views = 1 \/ n_views = 2 THEN Preset1 ELSE Preset3

ViewPositions_Strict(n_views) ==
  IF n_views = 1 THEN Preset1
  ELSE IF n_views = 2 THEN Preset2
  ELSE IF n_views = 3 THEN Preset3
  ELSE <<>>

\* The if / elif / else that picks view_positions
ViewPositions(n_views) ==
  IF n_views = 1 THEN Preset1
  ELSE IF n_views = 2 THEN Preset2
  ELSE Preset3

\* The number of pairs of zip(views.items(), view_positions)
ZipLen(views, positions) == Min2(Len(views), Len(positions))

\* ------------------------------------------------------------ control
\* The statement after stage, the idx-th of n views being the current one
NextStage_SaveFirst(stage, idx, n) ==
  CASE stage = "load" -> "setup"
    [] stage = "setup" -> IF n >= 1 THEN "slice" ELSE "title"
    [] stage = "slice" -> "render"
    [] stage = "render" -> IF idx < n THEN "slice" ELSE "save"
    [] stage = "save" -> "title"
    [] stage = "title" -> "notes"
    [] stage = "notes" -> "border"
    [] stage = "border" -> "show"
    [] stage = "show" -> "return"
    [] stage = "return" -> "report"
    [] OTHER -> "done"

NextStage(stage, idx, n) ==
  CASE stage = "load" -> "setup"
    [] stage = "setup" -> IF n >= 1 THEN "slice" ELSE "title"
    [] stage = "slice" -> "render"
    [] stage = "render" -> IF idx < n THEN "slice" ELSE "title"
    [] stage = "title" -> "notes"
    [] stage = "notes" -> "border"
    [] stage = "border" -> "save"
    [] stage = "save" -> "show"
    [] stage = "show" -> "return"
    [] stage = "return" -> "report"
    [] OTHER -> "done"

\* Where control goes when a stage raises: every stage runs inside the try
AfterRaise_Swallow(stage, idx, n) ==
  IF stage = "notes" THEN NextStage(stage, idx, n) ELSE "except"

AfterRaise(stage, idx, n) == "except"

\* The except clause that handles e
Handler_Generic(e) == "Exception"

Handler(e) == IF IsFileNotFound(e) THEN "FileNotFoundError" ELSE "Exception"

\* What a library call raises when it fails for a reason of its own
LibError(stage) == Exc("RuntimeError", stage)

Event(stage, idx, ok) == [stage |-> stage, idx |-> idx, ok |-> ok]

\* A stage ends: normally, or raising e
FinishWith(stage, e, positions) ==
  /\ log' = Append(log, Event(stage, i, e = NoExc))
  /\ err' = e
  /\ pc' = IF e = NoExc
           THEN NextStage(stage, i, ZipLen(slicing_planes, positions))
           ELSE AfterRaise(stage, i, ZipLen(slicing_planes, positions))

Finish(stage, e) == FinishWith(stage, e, view_positions)

Inputs == <<stl, slicing_planes, drawing_info, show_dimensions>>

\* ------------------------------------------------------------ the run
Init ==
  /\ stl \in StlFiles
  /\ slicing_planes \in ViewMappings
  /\ drawing_info \in InfoArgs
  /\ show_dimensions \in BOOLEAN
  /\ pc = "load"
  /\ mesh = NoMesh
  /\ eng_drawing = [drawing_info |-> EmptyMap]
  /\ view_positions = <<>>
  /\ i = 1
  /\ fig = <<>>
  /\ path2D = <<>>
  /\ written = "absent"
  /\ stdout = <<>>
  /\ err = NoExc
  /\ log = <<>>

\* mesh = load_and_center_mesh(STL_FILE)
Load ==
  /\ pc = "load"
  /\ \E fails \in BOOLEAN :
       LET e == IF ~stl.exists THEN Exc("FileNotFoundError", STL_FILE)
                ELSE IF fails THEN LibError("load") ELSE NoExc
       IN  /\ mesh' = IF e = NoExc THEN load_and_center_mesh(stl.content) ELSE mesh
           /\ Finish("load", e)
  /\ UNCHANGED <<Inputs, eng_drawing, view_positions, i, fig, path2D, written, stdout>>

\* create_engineering_drawing up to the loop: the metadata, the figure,
\* the layout
Setup ==
  /\ pc = "setup"
  /\ eng_drawing' = EngineeringDrawing(drawing_info)
  /\ fig' = <<>>
  /\ view_positions' = ViewPositions(Len(slicing_planes))
  /\ FinishWith("setup", NoExc, ViewPositions(Len(slicing_planes)))
  /\ UNCHANGED <<Inputs, mesh, i, path2D, written, stdout>>

\* ax = fig.add_axes(pos); path2D = get_cross_section(mesh, origin, normal)
Slice ==
  /\ pc = "slice"
  /\ \E fails \in BOOLEAN :
       LET plane == slicing_planes[i].plane
       IN  /\ fig' = Append(fig, NewAxes(view_positions[i]))
           /\ path2D' = IF fails THEN path2D
                        ELSE Append(path2D, get_cross_section(mesh, plane.origin, plane.normal))
           /\ Finish("slice", IF fails THEN LibError("slice") ELSE NoExc)
  /\ UNCHANGED <<Inputs, mesh, eng_drawing, view_positions, i, written, stdout>>

\* plot_cross_section(ax, path2D, title, show_dimensions=show_dimensions)
Render ==
  /\ pc = "render"
  /\ \E fails \in BOOLEAN :
       LET res == IF fails THEN [ax |-> fig[i], raised |-> LibError("render")]
                  ELSE plot_cross_section(fig[i], path2D[i], slicing_planes[i].title,
                                          show_dimensions)
       IN  /\ fig' = [fig EXCEPT ![i] = res.ax]
           /\ i' = IF res.raised = NoExc THEN i + 1 ELSE i
           /\ Finish("render", res.raised)
  /\ UNCHANGED <<Inputs, mesh, eng_drawing, view_positions, path2D, written, stdout>>

\* create_title_block(fig, eng_drawing.drawing_info)
TitleBlock ==
  /\ pc = "title"
  /\ \E fails \in BOOLEAN :
       LET res == create_title_block(eng_drawing.drawing_info)
       IN  IF fails THEN /\ fig' = fig
                         /\ Finish("title", LibError("title"))
           ELSE /\ fig' = Append(fig, res.ax)
                /\ Finish("title", res.raised)
  /\ UNCHANGED <<Inputs, mesh, eng_drawing, view_positions, i, path2D, written, stdout>>

\* create_notes_section(fig, eng_drawing.drawing_info)
Notes ==
  /\ pc = "notes"
  /\ \E fails \in BOOLEAN :
       LET res == create_notes_section(eng_drawing.drawing_info)
       IN  IF fails THEN /\ fig' = fig
                         /\ Finish("notes", LibError("notes"))
           ELSE /\ fig' = Append(fig, res.ax)
                /\ Finish("notes", res.raised)
  /\ UNCHANGED <<Inputs, mesh, eng_drawing, view_positions, i, path2D, written, stdout>>

\* The drawing border
Border ==
  /\ pc = "border"
  /\ \E fails \in BOOLEAN :
       IF fails THEN /\ fig' = fig
                     /\ Finish("border", LibError("border"))
       ELSE /\ fig' = Append(fig, BorderAxes)
            /\ Finish("border", NoExc)
  /\ UNCHANGED <<Inputs, mesh, eng_drawing, view_positions, i, path2D, written, stdout>>

\* plt.savefig(output_path, ...): a failing save leaves no file or a part of it
Save ==
  /\ pc = "save"
  /\ \E left \in {"complete", "absent", "partial"} :
       /\ written' = left
       /\ Finish("save", IF left = "complete" THEN NoExc ELSE LibError("save"))
  /\ UNCHANGED <<Inputs, mesh, eng_drawing, view_positions, i, fig, path2D, stdout>>

\* plt.show()
Show ==
  /\ pc = "show"
  /\ \E fails \in BOOLEAN :
       Finish("show", IF fails THEN LibError("show") ELSE NoExc)
  /\ UNCHANGED <<Inputs, mesh, eng_drawing, view_positions, i, fig, path2D, written, stdout>>

\* return output_path, and the success message of __main__
Return ==
  /\ pc = "return"
  /\ stdout' = Append(stdout, [kind |-> "saved", text |-> <<OUTPUT_FILE>>])
  /\ Finish("return", NoExc)
  /\ UNCHANGED <<Inputs, mesh, eng_drawing, view_positions, i, fig, path2D, written>>

\* dims = get_mesh_dimensions(mesh) and the four prints
Report ==
  /\ pc = "report"
  /\ \E fails \in BOOLEAN :
       LET dims == get_mesh_dimensions(mesh)
       IN  /\ stdout' = IF fails THEN stdout
                        ELSE Append(stdout,
                               [kind |-> "dimensions",
                                text |-> <<Fmt2(dims.length), Fmt2(dims.width),
                                           Fmt2(dims.height)>>])
           /\ Finish("report", IF fails THEN LibError("report") ELSE NoExc)
  /\ UNCHANGED <<Inputs, mesh, eng_drawing, view_positions, i, fig, path2D, written>>

\* except FileNotFoundError
ExceptFileNotFound ==
  /\ pc = "except"
  /\ Handler(err) = "FileNotFoundError"
  /\ stdout' = Append(stdout, [kind |-> "not found", text |-> <<STL_FILE>>])
  /\ pc' = "done"
  /\ UNCHANGED <<Inputs, mesh, eng_drawing, view_positions, i, fig, path2D, written, err, log>>

\* except Exception as e
ExceptException ==
  /\ pc = "except"
  /\ Handler(err) = "Exception"
  /\ stdout' = Append(stdout, [kind |-> "error", text |-> <<err.msg>>])
  /\ pc' = "done"
  /\ UNCHANGED <<Inputs, mesh, eng_drawing, view_positions, i, fig, path2D, written, err, log>>

Next ==
  \/ Load
  \/ Setup
  \/ Slice
  \/ Render
  \/ TitleBlock
  \/ Notes
  \/ Border
  \/ Save
  \/ Show
  \/ Return
  \/ Report
  \/ ExceptFileNotFound
  \/ ExceptException

Spec == Init /\ [][Next]_vars

\* ------------------------------------------------------------ properties
NViews == Len(slicing_planes)

\* The stage was entered / ended normally / raised (for view idx)
Entered(stage) == \E k \in DOMAIN log : log[k].stage = stage
Completed(stage) == \E k \in DOMAIN log : log[k].stage = stage /\ log[k].ok
CompletedAt(stage, idx) ==
  \E k \in DOMAIN log : log[k] = Event(stage, idx, TRUE)
Failed(stage) == \E k \in DOMAIN log : log[k].stage = stage /\ ~log[k].ok
Count(stage) == Cardinality({k \in DOMAIN log : log[k].stage = stage})

\* The loop over the views has ended normally
LoopDone == Completed("setup") /\ (pc = "title" \/ Entered("title"))

\* plot_cross_section ran to its end on the idx-th panel
Rendered(idx) == CompletedAt("render", idx)

\* The section of the idx-th entry of the views mapping
SectionOf(idx) ==
  MeshSection(mesh, slicing_planes[idx].plane.origin, slicing_planes[idx].plane.normal)

SameMap(f, g) == DOMAIN f = DOMAIN g /\ \A k \in DOMAIN f : f[k] = g[k]

Kinds == [k \in DOMAIN stdout |-> stdout[k].kind]

\* The arguments __main__ passes: its three views, its metadata, dimensions on
ScriptRun ==
  /\ slicing_planes = ViewsFrom(1, 3)
  /\ drawing_info = InfoArg(MainInfo)
  /\ show_dimensions

\* C1: for a views mapping of n entries, n in {1, 2, 3}, once the loop over
\* the views has ended there are exactly n positions and exactly n panels, all
\* rendered; the k-th panel is at the k-th position of the preset for n and
\* shows the section of the k-th entry; no two panels share a position.
C1_OnePanelPerView ==
  (NViews \in {1, 2, 3} /\ LoopDone) =>
    LET preset == IF NViews = 1 THEN Preset1
                  ELSE IF NViews = 2 THEN Preset2 ELSE Preset3
    IN  /\ Len(view_positions) = NViews
        /\ Count("slice") = NViews
        /\ Count("render") = NViews
        /\ Len(path2D) = NViews
        /\ \A k \in 1..NViews :
             /\ Rendered(k)
             /\ fig[k].pos = preset[k]
             /\ path2D[k] = SectionOf(k)
             /\ IF path2D[k].some
                THEN Len(fig[k].patches) = Len(path2D[k].discrete)
                ELSE fig[k].title = <<slicing_planes[k].title, " (No section)">>
        /\ \A j, k \in 1..NViews : j # k => fig[j].pos # fig[k].pos

C1_Witness ==
  /\ pc = "title"
  /\ NViews = 2
  /\ Len(fig) = 2
  /\ Rendered(1) /\ Rendered(2)

\* C2: a plane that misses the mesh gives the empty result None, and the panel
\* rendered from it has the title "<title> (No section)", hidden axes, and no
\* patch, line, arrow or label, with show_dimensions true or false; rendering
\* it raises nothing of its own.
C2_NoSectionPlaceholder ==
  \A k \in DOMAIN log :
    LET idx == log[k].idx
    IN  /\ (log[k].stage = "slice" /\ log[k].ok /\ ~SectionOf(idx).some)
             => path2D[idx] = None2D
        /\ (log[k].stage = "render" /\ path2D[idx] = None2D) =>
             IF log[k].ok
             THEN /\ fig[idx].title = <<slicing_planes[idx].title, " (No section)">>
                  /\ fig[idx].axis_off
                  /\ fig[idx].built = <<>> /\ fig[idx].patches = <<>>
                  /\ fig[idx].lines = <<>> /\ fig[idx].arrows = <<>>
                  /\ fig[idx].texts = <<>>
             ELSE err = LibError("render")

C2_Witness ==
  /\ show_dimensions
  /\ \E idx \in DOMAIN path2D :
       /\ path2D[idx] = None2D
       /\ Rendered(idx)
       /\ fig[idx].title = <<slicing_planes[idx].title, " (No section)">>

\* The first and the last point coincide within tol = 1e-2 mm
WithinTol(a, b) == \A c \in 1..2 : Abs(a[c] - b[c]) * TolDen <= UnitsPerMm

\* C3 (as claimed): the vertices built for a polyline are the polyline itself
\* when its first and last points coincide within the tolerance, and the
\* polyline followed by its first point when they differ beyond it.
C3_ClosingPoint ==
  \A idx \in DOMAIN path2D :
    \A j \in 1..Len(fig[idx].built) :
      LET poly == path2D[idx].discrete[j]
      IN  fig[idx].built[j].verts =
            IF WithinTol(poly[1], poly[Len(poly)]) THEN poly
            ELSE Append(poly, poly[1])

\* C10 (as claimed): the codes built for a polyline of one or more points are
\* as many as the vertices, MOVETO first, CLOSEPOLY last, LINETO in between.
C10_CodesMatchVertices ==
  \A idx \in DOMAIN path2D :
    \A j \in 1..Len(fig[idx].built) :
      LET b == fig[idx].built[j]
      IN  /\ Len(b.codes) = Len(b.verts)
          /\ b.codes[1] = "MOVETO"
          /\ b.codes[Len(b.codes)] = "CLOSEPOLY"
          /\ \A c \in 2..(Len(b.codes) - 1) : b.codes[c] = "LINETO"

\* The stages of the run that come before the save
PreSave == {"load", "setup", "slice", "render", "title", "notes", "border"}

\* C4 (as claimed): whenever the output file has been written, the run has
\* not failed and does not fail: no stage, the display and the dimension report
\* included, has raised.
C4_WrittenOnlyIfNoFailure ==
  (ScriptRun /\ written = "complete") =>
    (err = NoExc /\ \A k \in DOMAIN log : log[k].ok)

\* C4 (amended): the output file is complete only when the load, the setup,
\* the slice and the render of every laid-out view, the title block, the notes
\* and the border have all ended normally and the save itself did; a run in
\* which one of these fails never holds a complete file, and the only failures
\* of a run that holds one are those of the display and of the report.
C4_WrittenOnlyAfterDrawing ==
  /\ written = "complete" =>
       /\ \A st \in {"load", "setup", "title", "notes", "border", "save"} :
            Completed(st)
       /\ \A idx \in 1..Min2(NViews, Len(view_positions)) :
            CompletedAt("slice", idx) /\ CompletedAt("render", idx)
       /\ \A k \in DOMAIN log : ~log[k].ok => log[k].stage \in {"show", "report"}
  /\ (\E k \in DOMAIN log : ~log[k].ok /\ log[k].stage \in PreSave \cup {"save"})
       => written # "complete"

C4_Witness ==
  /\ ScriptRun
  /\ written = "complete"
  /\ pc = "done"
  /\ Failed("show")

PresetPositions ==
  {Preset1[1], Preset2[1], Preset2[2], Preset3[1], Preset3[2], Preset3[3]}

IsVertical(l) == l.xs[1] = l.xs[2]
IsHorizontal(l) == l.ys[1] = l.ys[2]

\* v hundredths of a mm is w units rounded to two decimals
RoundsTo(v, w) ==
  /\ Abs(v * UnitsPerMm - 100 * w) * 2 <= UnitsPerMm
  /\ (Abs(v * UnitsPerMm - 100 * w) * 2 = UnitsPerMm => v % 2 = 0)

TitleAxes == fig[Count("slice") + 1]
NotesAxes == fig[Count("slice") + 2]

\* C8 (as claimed): the metadata is the caller's mapping whenever the caller
\* supplies one, and the default template only when the caller supplies none.
C8_CallerMappingVerbatim ==
  Completed("setup") =>
    SameMap(eng_drawing.drawing_info,
            IF drawing_info.given THEN drawing_info.map ELSE get_default_drawing_info)

\* C8 (amended): the metadata is the caller's mapping, whole and unchanged,
\* whenever the caller supplies a non-empty mapping, and the default template
\* when the caller supplies none or an empty one; the title block and the notes
\* show the fields of that mapping, and a field the caller's mapping lacks is
\* not filled in from the default: the panel that reads it raises KeyError.
C8_CallerMappingOrDefault ==
  Completed("setup") =>
    LET used == IF drawing_info.given /\ DOMAIN drawing_info.map # {}
                THEN drawing_info.map ELSE get_default_drawing_info
    IN  /\ SameMap(eng_drawing.drawing_info, used)
        /\ Completed("title") =>
             /\ \A k \in 1..Len(TitleBlockKeys) : TitleBlockKeys[k] \in DOMAIN used
             /\ TitleAxes.texts[1].s = used["company"]
             /\ TitleAxes.texts[4].s = used["part_name"]
             /\ TitleAxes.texts[8].s = used["material"]
             /\ TitleAxes.texts[20].s = used["drawing_number"]
        /\ Completed("notes") =>
             /\ \A k \in 1..Len(NotesKeys) : NotesKeys[k] \in DOMAIN used
             /\ NotesAxes.texts[4].s = <<"   LINEAR TOL: ", used["tolerances"].linear>>
             /\ NotesAxes.texts[8].s = <<"5. MATERIAL: ", used["material"]>>
        /\ (Entered("title") /\ \E k \in 1..Len(TitleBlockKeys) : TitleBlockKeys[k] \notin DOMAIN used)
             => Failed("title")

C8_Witness ==
  /\ drawing_info = InfoArg(NoTolInfo)
  /\ Completed("title")
  /\ TitleAxes.texts[4].s = "SHAFT"
  /\ Failed("notes")
  /\ err = KeyError("tolerances")

\* The stages of a whole run over n views, in order
RECURSIVE ViewStages(_, _)
ViewStages(k, n) ==
  IF k > n THEN <<>>
  ELSE << <<"slice", k>>, <<"render", k>> >> \o ViewStages(k + 1, n)

Pipeline(n) ==
  << <<"load", 1>>, <<"setup", 1>> >> \o ViewStages(1, n)
  \o << <<"title", n + 1>>, <<"notes", n + 1>>, <<"border", n + 1>>,
        <<"save", n + 1>>, <<"show", n + 1>>, <<"return", n + 1>>,
        <<"report", n + 1>> >>

\* C9: the stages run in one fixed order, each once: the load, which leaves
\* the mesh centered, then for every view in mapping order its slice and then
\* its render, then the title block, the notes, the border, the save, the
\* display and the return; a run that ends without failure has gone through
\* all of them, and a stage that raises is the last one of its run.  (Of a
\* mapping of more than three views the first three are the views of the run.)
C9_SinglePass ==
  LET n == Min2(NViews, 3)
      whole == Pipeline(n)
  IN  /\ Len(log) <= Len(whole)
      /\ \A k \in DOMAIN log : <<log[k].stage, log[k].idx>> = whole[k]
      /\ \A k \in DOMAIN log : ~log[k].ok => k = Len(log)
      /\ (pc = "done" /\ err = NoExc) => Len(log) = Len(whole)
      /\ Completed("load") => mesh.center_mass = <<0, 0, 0>>
      /\ written = "complete" => Completed("border")
      /\ (\E k \in DOMAIN stdout : stdout[k].kind = "saved") => Completed("save")

C9_Witness ==
  /\ ScriptRun
  /\ pc = "done"
  /\ err = NoExc
  /\ Len(log) = 15

====
